---------------------------- MODULE Spec2Model ----------------------------
(***************************************************************************)
(* A model of the LightWave command-line client: the HTTP client and its   *)
(* error taxonomy (src/api.rs), the key=value parameter coercion           *)
(* (src/utils.rs) and the command dispatch (src/cli.rs).                   *)
(*                                                                         *)
(* Strings the program inspects character by character (URLs, key=value    *)
(* parameters, effect names) are sequences of one-character strings.       *)
(* Messages the program only builds and passes on are TLA+ strings.        *)
(***************************************************************************)
EXTENDS Integers, Sequences, FiniteSets, TLC

VARIABLES
    url_arg,    \* cli.url: the --url argument, None or Some(string)
    env_var,    \* what env::var("LIGHTWAVE_URL") returns
    client,     \* the LightWaveClient built by handle_command, None before
    params,     \* the slice handed to parse_params
    parsed,     \* the map parse_params returned, or NotParsed
    call,       \* the last client operation: what it sent, got and returned
    prev_call,  \* the client operation before it, when several are made
    cmd         \* the last dispatched command: its client calls and its result

vars == <<url_arg, env_var, client, params, parsed, call, prev_call, cmd>>

----------------------------------------------------------------------------
(* Bounds of the model. *)

\* Longest URL string drawn for --url / LIGHTWAVE_URL.
MaxUrlLen == 5

\* Characters URLs are drawn from: "h" stands for any character that is
\* neither '/' nor a letter of "api".
UrlAlphabet == {"h", "/", "a", "p", "i"}

----------------------------------------------------------------------------
(* Strings as character sequences. *)

StringsUpTo(alphabet, n) == UNION {[1..k -> alphabet] : k \in 0..n}

\* str::ends_with
ends_with(s, suffix) ==
    /\ Len(s) >= Len(suffix)
    /\ SubSeq(s, Len(s) - Len(suffix) + 1, Len(s)) = suffix

\* str::trim_end_matches(char): drops every trailing occurrence of c.
RECURSIVE trim_end_matches(_, _)
trim_end_matches(s, c) ==
    IF Len(s) > 0 /\ s[Len(s)] = c
    THEN trim_end_matches(SubSeq(s, 1, Len(s) - 1), c)
    ELSE s

None == [some |-> FALSE]
Some(v) == [some |-> TRUE, val |-> v]

----------------------------------------------------------------------------
(* Client construction: src/api.rs. *)

ApiSegment == <<"/", "a", "p", "i">>
DefaultUrl ==
    <<"h","t","t","p",":","/","/","l","o","c","a","l","h","o","s","t",
      ":","8","0","0","0","/","a","p","i">>

\* std::env::var returns Ok(value), Err(NotPresent) or Err(NotUnicode).
EnvNotPresent == [ok |-> FALSE, err |-> "NotPresent"]
EnvNotUnicode == [ok |-> FALSE, err |-> "NotUnicode"]
EnvOk(v) == [ok |-> TRUE, val |-> v]

format_base_url_no_trim(url) ==
    IF ends_with(url, ApiSegment) THEN url ELSE url \o ApiSegment

format_base_url(url) ==
    LET trimmed == trim_end_matches(url, "/")
    IN  IF ends_with(trimmed, ApiSegment)
        THEN trimmed
        ELSE trimmed \o ApiSegment

get_base_url_env_first(arg, env) ==
    IF env.ok THEN format_base_url(env.val)
    ELSE IF arg.some THEN format_base_url(arg.val)
    ELSE DefaultUrl

get_base_url(arg, env) ==
    IF arg.some THEN format_base_url(arg.val)
    ELSE IF env.ok THEN format_base_url(env.val)
    ELSE DefaultUrl

\* LightWaveClient::new; the transport handle holds no state of the model.
new(env) == [base_url |-> get_base_url(None, env)]

\* LightWaveClient::with_base_url
with_base_url(url, env) == [base_url |-> get_base_url(Some(url), env)]

----------------------------------------------------------------------------
(* Character classes and decimal numerals. *)

UpperCase ==
    <<"A","B","C","D","E","F","G","H","I","J","K","L","M",
      "N","O","P","Q","R","S","T","U","V","W","X","Y","Z">>
LowerCase ==
    <<"a","b","c","d","e","f","g","h","i","j","k","l","m",
      "n","o","p","q","r","s","t","u","v","w","x","y","z">>
DigitChars == <<"0","1","2","3","4","5","6","7","8","9">>

\* u8::to_ascii_lowercase
to_ascii_lowercase(c) ==
    IF \E i \in 1..26 : UpperCase[i] = c
    THEN LowerCase[CHOOSE i \in 1..26 : UpperCase[i] = c]
    ELSE c

\* str::eq_ignore_ascii_case
eq_ignore_ascii_case(a, b) ==
    /\ Len(a) = Len(b)
    /\ \A i \in 1..Len(a) : to_ascii_lowercase(a[i]) = to_ascii_lowercase(b[i])

is_ascii_digit(c) == \E i \in 1..10 : DigitChars[i] = c
DigitVal(c) == (CHOOSE i \in 1..10 : DigitChars[i] = c) - 1
AllDigits(s) == \A i \in 1..Len(s) : is_ascii_digit(s[i])

RECURSIVE StripLeadingZeros(_)
StripLeadingZeros(d) ==
    IF Len(d) > 0 /\ d[1] = "0" THEN StripLeadingZeros(Tail(d)) ELSE d

RECURSIVE StripTrailingZeros(_)
StripTrailingZeros(d) ==
    IF Len(d) > 0 /\ d[Len(d)] = "0"
    THEN StripTrailingZeros(SubSeq(d, 1, Len(d) - 1))
    ELSE d

\* Lexicographic order on digit strings, the shorter one padded with zeros on
\* the right: -1, 0 or 1.
RECURSIVE CmpPadded(_, _)
CmpPadded(a, b) ==
    IF Len(a) = 0 /\ Len(b) = 0 THEN 0
    ELSE LET x == IF Len(a) = 0 THEN 0 ELSE DigitVal(a[1])
             y == IF Len(b) = 0 THEN 0 ELSE DigitVal(b[1])
         IN  IF x < y THEN -1
             ELSE IF x > y THEN 1
             ELSE CmpPadded(IF Len(a) = 0 THEN a ELSE Tail(a),
                            IF Len(b) = 0 THEN b ELSE Tail(b))

\* Order on natural numbers written without leading zeros.
NumeralLE(a, b) ==
    \/ Len(a) < Len(b)
    \/ Len(a) = Len(b) /\ CmpPadded(a, b) <= 0

\* The value of a short digit string (exponents only).
RECURSIVE NatOf(_)
NatOf(d) ==
    IF Len(d) = 0 THEN 0
    ELSE 10 * NatOf(SubSeq(d, 1, Len(d) - 1)) + DigitVal(d[Len(d)])

----------------------------------------------------------------------------
(* str::parse::<i64>() and str::parse::<f64>(): src/utils.rs lines 59, 61. *)
(* A 64-bit integer is kept as its sign and its decimal numeral, a float   *)
(* as its sign, its significant digits d1 d2 ... and the exponent E of     *)
(* d1.d2... * 10^E: the f64 nearest to that decimal.                       *)

I64MaxDigits ==
    <<"9","2","2","3","3","7","2","0","3","6","8","5","4","7","7","5","8","0","7">>
I64MinDigits ==
    <<"9","2","2","3","3","7","2","0","3","6","8","5","4","7","7","5","8","0","8">>

\* The first digits of 2^1024 - 2^970, the least magnitude that rounds to
\* infinity, and of 2^-1075, the greatest that rounds to zero.
F64OverflowDigits ==
    <<"1","7","9","7","6","9","3","1","3","4","8","6","2","3","1","5","8","0","7","9">>
F64UnderflowDigits ==
    <<"2","4","7","0","3","2","8","2","2","9","2","0","6","2","3","2","7","2","0","8">>

ParseErr == [ok |-> FALSE]
ParseOk(v) == [ok |-> TRUE, val |-> v]

HasSign(s) == Len(s) > 0 /\ s[1] \in {"+", "-"}
Unsigned(s) == IF HasSign(s) THEN Tail(s) ELSE s

\* i64::from_str: an optional sign, then one or more ASCII digits, the value
\* within i64's range.
parse_i64(s) ==
    LET neg == Len(s) > 0 /\ s[1] = "-"
        body == Unsigned(s)
        mag == IF StripLeadingZeros(body) = <<>>
               THEN <<"0">> ELSE StripLeadingZeros(body)
    IN  IF Len(body) = 0 \/ ~AllDigits(body) THEN ParseErr
        ELSE IF ~NumeralLE(mag, IF neg THEN I64MinDigits ELSE I64MaxDigits)
        THEN ParseErr
        ELSE ParseOk([neg |-> neg /\ mag # <<"0">>, digits |-> mag])

\* The longest prefix of s made of ASCII digits.
RECURSIVE DigitPrefixLen(_)
DigitPrefixLen(s) ==
    IF Len(s) > 0 /\ is_ascii_digit(s[1]) THEN 1 + DigitPrefixLen(Tail(s)) ELSE 0

Drop(s, n) == SubSeq(s, n + 1, Len(s))
Take(s, n) == SubSeq(s, 1, n)

FloatNaN == [class |-> "nan"]
FloatInf(neg) == [class |-> "inf", neg |-> neg]
FloatFinite(neg, sig, exp) == [class |-> "finite", neg |-> neg, sig |-> sig, exp |-> exp]

\* The f64 nearest to (intDigits . fracDigits) * 10^e.
RoundToF64(neg, intDigits, fracDigits, e) ==
    LET all == StripLeadingZeros(intDigits \o fracDigits)
        sig == StripTrailingZeros(all)
        sci == Len(all) - 1 + e - Len(fracDigits)
    IN  IF sig = <<>> THEN FloatFinite(neg, <<"0">>, 0)
        ELSE IF sci > 308 \/ (sci = 308 /\ CmpPadded(sig, F64OverflowDigits) >= 0)
        THEN FloatInf(neg)
        ELSE IF sci < -324 \/ (sci = -324 /\ CmpPadded(sig, F64UnderflowDigits) <= 0)
        THEN FloatFinite(neg, <<"0">>, 0)
        ELSE FloatFinite(neg, sig, sci)

\* f64::from_str: an optional sign; then digits with an optional '.' (at least
\* one digit in all) and an optional exponent (e or E, an optional sign, one
\* or more digits); or, in any letter case, "nan", "inf" or "infinity".
parse_f64(s) ==
    LET neg == Len(s) > 0 /\ s[1] = "-"
        body == Unsigned(s)
        nInt == DigitPrefixLen(body)
        intDigits == Take(body, nInt)
        afterInt == Drop(body, nInt)
        hasDot == Len(afterInt) > 0 /\ afterInt[1] = "."
        afterDot == IF hasDot THEN Tail(afterInt) ELSE afterInt
        nFrac == IF hasDot THEN DigitPrefixLen(afterDot) ELSE 0
        fracDigits == Take(afterDot, nFrac)
        afterFrac == Drop(afterDot, nFrac)
        hasExp == Len(afterFrac) > 0 /\ afterFrac[1] \in {"e", "E"}
        expPart == IF hasExp THEN Tail(afterFrac) ELSE <<>>
        expNeg == Len(expPart) > 0 /\ expPart[1] = "-"
        expDigits == Unsigned(expPart)
        isNumber ==
            /\ nInt + nFrac > 0
            /\ IF hasExp
               THEN Len(expDigits) > 0 /\ AllDigits(expDigits)
               ELSE Len(afterFrac) = 0
        e == IF hasExp
             THEN (IF expNeg THEN 0 - NatOf(expDigits) ELSE NatOf(expDigits))
             ELSE 0
    IN  IF Len(body) = 0 THEN ParseErr
        ELSE IF isNumber THEN ParseOk(RoundToF64(neg, intDigits, fracDigits, e))
        ELSE IF eq_ignore_ascii_case(body, <<"n","a","n">>) THEN ParseOk(FloatNaN)
        ELSE IF \/ eq_ignore_ascii_case(body, <<"i","n","f">>)
                \/ eq_ignore_ascii_case(body, <<"i","n","f","i","n","i","t","y">>)
        THEN ParseOk(FloatInf(neg))
        ELSE ParseErr

----------------------------------------------------------------------------
(* serde_json::Value as built by parse_params: src/utils.rs. *)

ValueBool(b) == <<"Bool", b>>
ValueInt(n) == <<"Number", "i64", n>>
ValueFloat(f) == <<"Number", "f64", f>>
ValueString(s) == <<"String", s>>

\* serde_json::Number::from_f64: None unless the float is finite.
Number_from_f64(f) ==
    IF f.class = "finite" THEN Some(ValueFloat(f)) ELSE None

\* The coercion with the integer and float trials swapped.
coerce_float_first(value) ==
    IF eq_ignore_ascii_case(value, <<"t","r","u","e">>) THEN ValueBool(TRUE)
    ELSE IF eq_ignore_ascii_case(value, <<"f","a","l","s","e">>) THEN ValueBool(FALSE)
    ELSE IF parse_f64(value).ok
    THEN (IF Number_from_f64(parse_f64(value).val).some
          THEN Number_from_f64(parse_f64(value).val).val
          ELSE ValueString(value))
    ELSE IF parse_i64(value).ok THEN ValueInt(parse_i64(value).val)
    ELSE ValueString(value)

\* The if / else-if chain of parse_params: lines 55-69.
coerce(value) ==
    IF eq_ignore_ascii_case(value, <<"t","r","u","e">>) THEN ValueBool(TRUE)
    ELSE IF eq_ignore_ascii_case(value, <<"f","a","l","s","e">>) THEN ValueBool(FALSE)
    ELSE IF parse_i64(value).ok THEN ValueInt(parse_i64(value).val)
    ELSE IF parse_f64(value).ok
    THEN (IF Number_from_f64(parse_f64(value).val).some
          THEN Number_from_f64(parse_f64(value).val).val
          ELSE ValueString(value))
    ELSE ValueString(value)

\* The index of the first '=' of s, 0 when there is none.
RECURSIVE FindChar(_, _, _)
FindChar(s, c, from) ==
    IF from > Len(s) THEN 0
    ELSE IF s[from] = c THEN from
    ELSE FindChar(s, c, from + 1)

\* The index of the last '=' of s, 0 when there is none.
RECURSIVE FindLastChar(_, _, _)
FindLastChar(s, c, from) ==
    IF from < 1 THEN 0
    ELSE IF s[from] = c THEN from
    ELSE FindLastChar(s, c, from - 1)

split_once_last(s, c) ==
    LET i == FindLastChar(s, c, Len(s))
    IN  IF i = 0 THEN None
        ELSE Some([key |-> Take(s, i - 1), value |-> Drop(s, i)])

\* str::split_once: the parts before and after the first occurrence of c.
split_once(s, c) ==
    LET i == FindChar(s, c, 1)
    IN  IF i = 0 THEN None
        ELSE Some([key |-> Take(s, i - 1), value |-> Drop(s, i)])

\* HashMap::insert: a later value replaces the one the key had.
insert(map, key, value) ==
    [k \in DOMAIN map \cup {key} |-> IF k = key THEN value ELSE map[k]]

EmptyMap == [k \in {} |-> 0]

\* The loop of parse_params over the first n entries.
RECURSIVE parse_params_loop(_, _)
parse_params_loop(ps, n) ==
    IF n = 0 THEN EmptyMap
    ELSE LET result == parse_params_loop(ps, n - 1)
             kv == split_once(ps[n], "=")
         IN  IF kv.some
             THEN insert(result, kv.val.key, coerce(kv.val.value))
             ELSE result

parse_params(ps) == parse_params_loop(ps, Len(ps))

----------------------------------------------------------------------------
(* The server's answers. A JSON document is a tagged tuple; NotJson is a   *)
(* body that is no JSON document at all.                                   *)

JNull == <<"null">>
JBool(b) == <<"bool", b>>
JString(s) == <<"string", s>>
JNumber(n) == <<"number", n>>
JArray(a) == <<"array", a>>
JObject(f) == <<"object", f>>
NotJson == <<"notjson">>

IsObject(v) == v[1] = "object"
HasField(v, k) == k \in DOMAIN v[2]

\* reqwest::StatusCode values the server is taken to answer with.
StatusCodes == {200, 204, 304, 404, 500}

\* StatusCode::is_success: 200..=299.
is_success(status) == 200 <= status /\ status < 300

\* StatusCode::canonical_reason
canonical_reason(status) ==
    CASE status = 200 -> "OK"
      [] status = 204 -> "No Content"
      [] status = 304 -> "Not Modified"
      [] status = 404 -> "Not Found"
      [] status = 500 -> "Internal Server Error"
      [] OTHER -> "<unknown status code>"

\* impl Display for StatusCode: the code, a space, the canonical reason.
StatusDisplay(status) == ToString(status) \o " " \o canonical_reason(status)

NOT_FOUND == 404

----------------------------------------------------------------------------
(* Response bodies and their decoding: src/models.rs. *)

FieldNames == {"detail", "effects", "name", "description", "parameters", "running"}

EffectInfoJson ==
    JObject([k \in {"name", "description"} |->
        IF k = "name" THEN JString("rainbow") ELSE JString("Rainbow cycle")])

EffectParameterJson ==
    JObject([k \in {"name", "type", "description", "default", "min_value"} |->
        CASE k = "name" -> JString("speed")
          [] k = "type" -> JString("int")
          [] k = "description" -> JString("Cycle speed")
          [] k = "default" -> JNumber(5)
          [] k = "min_value" -> JNull])

\* A well-typed value for each field.
GoodValue(k) ==
    CASE k = "detail" -> JString("Effect not found")
      [] k = "effects" -> JArray(<<EffectInfoJson>>)
      [] k = "name" -> JString("rainbow")
      [] k = "description" -> JString("Rainbow cycle")
      [] k = "parameters" -> JArray(<<>>)
      [] k = "running" -> JBool(TRUE)

\* Further bodies: an ill-typed field, or fields beyond FieldNames.
OtherBodies ==
    { JObject([k \in {"detail"} |-> JNull]),
      JObject([k \in {"effects"} |-> JArray(<<JNull>>)]),
      JObject([k \in {"effects"} |-> JString("none")]),
      JObject([k \in {"running"} |-> JString("yes")]),
      JObject([k \in {"running", "name"} |->
                  IF k = "running" THEN JBool(FALSE) ELSE JNull]),
      JObject([k \in {"running", "runtime"} |->
                  IF k = "running" THEN JBool(TRUE) ELSE JNumber(15)]),
      JObject([k \in {"name", "description", "parameters"} |->
                  IF k = "parameters" THEN JArray(<<JNull>>) ELSE GoodValue(k)]),
      JObject([k \in {"name", "description", "parameters"} |->
                  IF k = "parameters" THEN JArray(<<EffectParameterJson>>)
                  ELSE GoodValue(k)]) }

Bodies ==
    {NotJson, JNull}
    \cup {JObject([k \in S |-> GoodValue(k)]) : S \in SUBSET FieldNames}
    \cup OtherBodies

DecodeErr(msg) == [ok |-> FALSE, err |-> msg]
DecodeOk(v) == [ok |-> TRUE, val |-> v]

\* Rust types as the derived decoders see them.
TString == <<"String">>
TBool == <<"bool">>
TF64 == <<"f64">>
TValue == <<"Value">>
TVec(t) == <<"Vec", t>>
TOption(t) == <<"Option", t>>
TMap(t) == <<"HashMap", t>>
TStruct(name) == <<"struct", name>>

Field(name, type) == [name |-> name, type |-> type]

\* The fields of the #[derive(Deserialize)] structs of src/models.rs, by their
\* names on the wire.
Fields(struct) ==
    CASE struct = "ErrorResponse" -> <<Field("detail", TString)>>
      [] struct = "EffectInfo" ->
            <<Field("name", TString), Field("description", TString)>>
      [] struct = "EffectsListResponse" ->
            <<Field("effects", TVec(TStruct("EffectInfo")))>>
      [] struct = "EffectParameter" ->
            <<Field("name", TString), Field("type", TString),
              Field("description", TString), Field("default", TValue),
              Field("min_value", TOption(TValue)), Field("max_value", TOption(TValue)),
              Field("options", TOption(TVec(TString)))>>
      [] struct = "EffectDetailedInfo" ->
            <<Field("name", TString), Field("description", TString),
              Field("parameters", TVec(TStruct("EffectParameter")))>>
      [] struct = "EffectStatusResponse" ->
            <<Field("running", TBool), Field("name", TOption(TString)),
              Field("description", TOption(TString)),
              Field("parameters", TOption(TMap(TValue))),
              Field("start_time", TOption(TString)), Field("runtime", TOption(TF64))>>

InvalidType(v, expected) == DecodeErr("invalid type: " \o v[1] \o ", expected " \o expected)

\* The first failure among results, or all their values.
Collect(results) ==
    IF \E i \in DOMAIN results : ~results[i].ok
    THEN results[CHOOSE i \in DOMAIN results :
                    ~results[i].ok /\ \A j \in DOMAIN results : ~results[j].ok => i <= j]
    ELSE DecodeOk([i \in DOMAIN results |-> results[i].val])

\* A decoded struct: its fields by name.
StructOf(fields, values) ==
    [k \in {fields[i].name : i \in DOMAIN fields} |->
        values[CHOOSE i \in DOMAIN fields : fields[i].name = k]]

WrapSome(r) == IF r.ok THEN DecodeOk(Some(r.val)) ELSE r
WrapStruct(fields, r) == IF r.ok THEN DecodeOk(StructOf(fields, r.val)) ELSE r

\* serde's Deserialize for type t on the JSON value v. A struct needs a JSON
\* object holding every field that is no Option; fields it does not know are
\* skipped; an Option is None for null or for a missing field.
RECURSIVE Deserialize(_, _)
Deserialize(t, v) ==
    CASE t[1] = "String" ->
            IF v[1] = "string" THEN DecodeOk(v[2]) ELSE InvalidType(v, "a string")
      [] t[1] = "bool" ->
            IF v[1] = "bool" THEN DecodeOk(v[2]) ELSE InvalidType(v, "a boolean")
      [] t[1] = "f64" ->
            IF v[1] = "number" THEN DecodeOk(v[2]) ELSE InvalidType(v, "f64")
      [] t[1] = "Value" -> DecodeOk(v)
      [] t[1] = "Option" ->
            IF v = JNull THEN DecodeOk(None) ELSE WrapSome(Deserialize(t[2], v))
      [] t[1] = "Vec" ->
            IF v[1] # "array" THEN InvalidType(v, "a sequence")
            ELSE Collect([i \in 1..Len(v[2]) |-> Deserialize(t[2], v[2][i])])
      [] t[1] = "HashMap" ->
            IF v[1] # "object" THEN InvalidType(v, "a map")
            ELSE DecodeOk(v[2])
      [] t[1] = "struct" ->
            IF v[1] # "object" THEN InvalidType(v, "struct " \o t[2])
            ELSE WrapStruct(Fields(t[2]),
                    Collect([i \in DOMAIN Fields(t[2]) |->
                        IF HasField(v, Fields(t[2])[i].name)
                        THEN Deserialize(Fields(t[2])[i].type, v[2][Fields(t[2])[i].name])
                        ELSE IF Fields(t[2])[i].type[1] = "Option"
                        THEN DecodeOk(None)
                        ELSE DecodeErr("missing field " \o Fields(t[2])[i].name)]))

\* reqwest's decode error: its text ends with serde's message.
DecodeError(r) ==
    IF r.ok THEN r ELSE DecodeErr("error decoding response body: " \o r.err)

\* Response::json::<T>(): the body must be a JSON document that T decodes.
ResponseJson(T, body) ==
    IF body = NotJson
    THEN DecodeErr("error decoding response body: expected value at line 1 column 1")
    ELSE DecodeError(Deserialize(TStruct(T), body))

----------------------------------------------------------------------------
(* The error type and the response handling: src/api.rs lines 10-126. *)

Ok(v) == [ok |-> TRUE, val |-> v]
Err(e) == [ok |-> FALSE, err |-> e]
Unit == <<>>

\* enum ApiError
RequestError(e) == <<"RequestError", e>>
DeserializationError(msg) == <<"DeserializationError", msg>>
ApiResponseError(msg, status) == <<"ApiResponseError", msg, status>>
ClientError(msg) == <<"ClientError", msg>>

\* impl fmt::Display for ApiError
ApiErrorDisplay(e) ==
    CASE e[1] = "RequestError" -> "Request failed: " \o e[2]
      [] e[1] = "DeserializationError" -> "Failed to parse response: " \o e[2]
      [] e[1] = "ApiResponseError" ->
            "API error (" \o ToString(e[3]) \o "): " \o e[2]
      [] e[1] = "ClientError" -> "Client error: " \o e[2]

\* impl From<ReqwestError> for ApiError
From_ReqwestError(error) == RequestError(error)

\* The fallback message is used for every failing response.
handle_response_error_no_detail(resp) ==
    Err(ApiResponseError("Error status: " \o StatusDisplay(resp.status), resp.status))

\* The match of handle_response_error on what resp.json::<ErrorResponse>()
\* gave: lines 102-108.
ErrorFrom(status, parsed_error) ==
    IF parsed_error.ok
    THEN Err(ApiResponseError(parsed_error.val.detail, status))
    ELSE Err(ApiResponseError("Error status: " \o StatusDisplay(status), status))

handle_response_error(resp) ==
    ErrorFrom(resp.status, ResponseJson("ErrorResponse", resp.body))

\* The parse failure is reported without its message.
PayloadFrom_no_message(decoded) ==
    IF decoded.ok
    THEN Ok(decoded.val)
    ELSE Err(DeserializationError("Failed to parse response"))

\* The match of deserialize_response on what resp.json::<T>() gave:
\* lines 116-122.
PayloadFrom(decoded) ==
    IF decoded.ok
    THEN Ok(decoded.val)
    ELSE Err(DeserializationError("Failed to parse response: " \o decoded.err))

\* The body is tried as the payload before the status is looked at.
deserialize_response_body_first(resp, T) ==
    IF ResponseJson(T, resp.body).ok
    THEN Ok(ResponseJson(T, resp.body).val)
    ELSE IF is_success(resp.status)
    THEN PayloadFrom(ResponseJson(T, resp.body))
    ELSE handle_response_error(resp)

deserialize_response(resp, T) ==
    IF is_success(resp.status)
    THEN PayloadFrom(ResponseJson(T, resp.body))
    ELSE handle_response_error(resp)

----------------------------------------------------------------------------
(* The network: what one RequestBuilder::send() comes back with. *)

TransportErrors == {"error sending request: connection refused"}

SendFailed(e) == [sent_ok |-> FALSE, err |-> e]
Answered(status, body) == [sent_ok |-> TRUE, resp |-> [status |-> status, body |-> body]]

NetOutcomes ==
    {SendFailed(e) : e \in TransportErrors}
    \cup {Answered(s, b) : s \in StatusCodes, b \in Bodies}

Get(url) == [method |-> "GET", url |-> url, json |-> None]
Post(url) == [method |-> "POST", url |-> url, json |-> None]
PostJson(url, body) == [method |-> "POST", url |-> url, json |-> Some(body)]

\* What an operation hands back to the model: the requests it sent and its
\* Result.
Outcome(sent, result) == [sent |-> sent, result |-> result]

\* The tail shared by start_effect, stop_effect, set_color, set_brightness and
\* clear_leds: lines 165-169, 178-182, 197-201, 219-223, 232-236.
UnitResult(resp) ==
    IF is_success(resp.status) THEN Ok(Unit) ELSE handle_response_error(resp)

----------------------------------------------------------------------------
(* f32 brightness values: tenths, the zeros, the infinities and NaN. *)

MaxBrightnessTenths == 12

F32NaN == [class |-> "nan"]
F32Inf(neg) == [class |-> "inf", neg |-> neg]
F32Finite(neg, tenths) == [class |-> "finite", neg |-> neg, tenths |-> tenths]

F32Values ==
    {F32NaN, F32Inf(TRUE), F32Inf(FALSE)}
    \cup {F32Finite(n, t) : n \in BOOLEAN, t \in 0..MaxBrightnessTenths}

\* The position of a non-NaN value on the extended real line, in tenths.
F32Ord(x) ==
    IF x.class = "inf"
    THEN (IF x.neg THEN 0 - (MaxBrightnessTenths + 10) ELSE MaxBrightnessTenths + 10)
    ELSE (IF x.neg THEN 0 - x.tenths ELSE x.tenths)

\* IEEE 754 comparison: every comparison with NaN is false.
f32_lt(a, b) == a.class # "nan" /\ b.class # "nan" /\ F32Ord(a) < F32Ord(b)
f32_gt(a, b) == f32_lt(b, a)

F32Zero == F32Finite(FALSE, 0)
F32One == F32Finite(FALSE, 10)

\* serde_json writes a float that is not finite as null.
serialize_f32(x) == IF x.class = "finite" THEN <<"f32", x>> ELSE JNull

----------------------------------------------------------------------------
(* The API methods: src/api.rs lines 131-238. Each takes the client's base *)
(* URL, its arguments and what the network does with the request it sends. *)

PathEffects == <<"/","e","f","f","e","c","t","s">>
PathEffectsSlash == <<"/","e","f","f","e","c","t","s","/">>
PathStatus == <<"/","s","t","a","t","u","s">>
PathEffectsStart == <<"/","e","f","f","e","c","t","s","/","s","t","a","r","t">>
PathEffectsStop == <<"/","e","f","f","e","c","t","s","/","s","t","o","p">>
PathLedsColor == <<"/","l","e","d","s","/","c","o","l","o","r">>
PathLedsBrightness ==
    <<"/","l","e","d","s","/","b","r","i","g","h","t","n","e","s","s">>
PathLedsClear == <<"/","l","e","d","s","/","c","l","e","a","r">>

\* send()? followed by deserialize_response.
SendAndDeserialize(req, net, T) ==
    IF ~net.sent_ok
    THEN Outcome(<<req>>, Err(From_ReqwestError(net.err)))
    ELSE Outcome(<<req>>, deserialize_response(net.resp, T))

\* send()? followed by the success test of the operations without a payload.
SendForUnit(req, net) ==
    IF ~net.sent_ok
    THEN Outcome(<<req>>, Err(From_ReqwestError(net.err)))
    ELSE Outcome(<<req>>, UnitResult(net.resp))

\* A failed send is tried once more before it is reported.
list_effects_retry(self, net) ==
    LET req == Get(self.base_url \o PathEffects)
    IN  IF ~net.sent_ok
        THEN Outcome(<<req, req>>, Err(From_ReqwestError(net.err)))
        ELSE Outcome(<<req>>, deserialize_response(net.resp, "EffectsListResponse"))

list_effects(self, net) ==
    SendAndDeserialize(Get(self.base_url \o PathEffects), net, "EffectsListResponse")

get_effect_info(self, name, net) ==
    SendAndDeserialize(Get(self.base_url \o PathEffectsSlash \o name), net,
                       "EffectDetailedInfo")

get_effect_status(self, net) ==
    SendAndDeserialize(Get(self.base_url \o PathStatus), net, "EffectStatusResponse")

\* The request carries the name and an empty parameter map.
start_effect_no_parameters(self, name, parameters, net) ==
    LET request == [name |-> name, parameters |-> EmptyMap]
    IN  SendForUnit(PostJson(self.base_url \o PathEffectsStart, request), net)

start_effect(self, name, parameters, net) ==
    LET request == [name |-> name, parameters |-> parameters]
    IN  SendForUnit(PostJson(self.base_url \o PathEffectsStart, request), net)

stop_effect(self, net) ==
    SendForUnit(Post(self.base_url \o PathEffectsStop), net)

set_color(self, color, net) ==
    LET request == [color |-> color]
    IN  SendForUnit(PostJson(self.base_url \o PathLedsColor, request), net)

set_brightness(self, brightness, net) ==
    IF f32_lt(brightness, F32Zero) \/ f32_gt(brightness, F32One)
    THEN Outcome(<<>>, Err(ClientError("Brightness must be between 0.0 and 1.0")))
    ELSE LET request == [brightness |-> serialize_f32(brightness)]
         IN  SendForUnit(PostJson(self.base_url \o PathLedsBrightness, request), net)

clear_leds(self, net) ==
    SendForUnit(Post(self.base_url \o PathLedsClear), net)

----------------------------------------------------------------------------
(* The dispatch layer: src/cli.rs lines 82-321. A command's outcome is the *)
(* client calls it made, what it wrote to stderr and what it returned.     *)

CallMade(op, outcome) == [op |-> op, sent |-> outcome.sent, result |-> outcome.result]

CommandOutcome(calls, stderr, result) ==
    [calls |-> calls, stderr |-> stderr, result |-> result]

\* if let ApiError::ApiResponseError(_, status) = &e { if *status == NOT_FOUND
IsNotFound(result) ==
    /\ ~result.ok
    /\ result.err[1] = "ApiResponseError"
    /\ result.err[3] = NOT_FOUND

\* format_error: the error's Display text.
format_error(e) == <<"error", ApiErrorDisplay(e)>>

\* The `?` of EffectCommands::List, and of EffectCommands::Running: the error
\* is returned as it is, nothing is printed.
PropagateCall(op, outcome) ==
    CommandOutcome(<<CallMade(op, outcome)>>, <<>>,
                   IF outcome.result.ok THEN Ok(Unit) ELSE Err(outcome.result.err))

\* The match of LedCommands::Color, Brightness and Clear and of handle_status:
\* an error is printed and returned.
ReportCall(op, outcome) ==
    CommandOutcome(<<CallMade(op, outcome)>>,
                   IF outcome.result.ok THEN <<>> ELSE <<format_error(outcome.result.err)>>,
                   IF outcome.result.ok THEN Ok(Unit) ELSE Err(outcome.result.err))

\* EffectCommands::List
handle_effects_list(self, net) == PropagateCall("list_effects", list_effects(self, net))

\* EffectCommands::Running
handle_effects_running(self, net) ==
    PropagateCall("get_effect_status", get_effect_status(self, net))

\* The match of EffectCommands::Info on what get_effect_info gave.
InfoMatch(self, name, first, net2) ==
        IF first.result.ok
        THEN CommandOutcome(<<CallMade("get_effect_info", first)>>, <<>>, Ok(Unit))
        ELSE IF IsNotFound(first.result)
        THEN CommandOutcome(
                <<CallMade("get_effect_info", first),
                  CallMade("list_effects", list_effects(self, net2))>>,
                <<<<"not found", name>>>>,
                Err(first.result.err))
        ELSE CommandOutcome(<<CallMade("get_effect_info", first)>>, <<>>,
                            Err(first.result.err))

\* The 404 of get_effect_info is returned without listing the effects.
handle_effects_info_no_list(self, name, net, net2) ==
    PropagateCall("get_effect_info", get_effect_info(self, name, net))

\* EffectCommands::Info { name }
handle_effects_info(self, name, net, net2) ==
    InfoMatch(self, name, get_effect_info(self, name, net), net2)

\* The match of EffectCommands::Start on what start_effect gave.
StartMatch(self, name, first, net2) ==
        IF first.result.ok
        THEN CommandOutcome(<<CallMade("start_effect", first)>>, <<>>, Ok(Unit))
        ELSE IF IsNotFound(first.result)
        THEN CommandOutcome(
                <<CallMade("start_effect", first),
                  CallMade("list_effects", list_effects(self, net2))>>,
                <<<<"not found", name>>>>,
                Err(first.result.err))
        ELSE IF first.result.err[1] = "ApiResponseError"
        THEN CommandOutcome(<<CallMade("start_effect", first)>>,
                            <<format_error(first.result.err)>>,
                            Err(first.result.err))
        ELSE CommandOutcome(<<CallMade("start_effect", first)>>, <<>>,
                            Err(first.result.err))

\* EffectCommands::Start { name, param }
handle_effects_start(self, name, param, net, net2) ==
    StartMatch(self, name, start_effect(self, name, parse_params(param), net), net2)

\* Every failure of the stop call is reported, 404 included.
handle_effects_stop_strict(self, net) ==
    ReportCall("stop_effect", stop_effect(self, net))

\* The match of EffectCommands::Stop on what stop_effect gave.
StopMatch(first) ==
        IF first.result.ok
        THEN CommandOutcome(<<CallMade("stop_effect", first)>>, <<>>, Ok(Unit))
        ELSE IF IsNotFound(first.result)
        THEN CommandOutcome(<<CallMade("stop_effect", first)>>,
                            <<<<"warning", "No effect is currently running">>>>,
                            Ok(Unit))
        ELSE CommandOutcome(<<CallMade("stop_effect", first)>>,
                            <<format_error(first.result.err)>>,
                            Err(first.result.err))

\* EffectCommands::Stop
handle_effects_stop(self, net) == StopMatch(stop_effect(self, net))

\* LedCommands::Color { color }
handle_leds_color(self, color, net) == ReportCall("set_color", set_color(self, color, net))

\* LedCommands::Brightness { brightness }
handle_leds_brightness(self, brightness, net) ==
    ReportCall("set_brightness", set_brightness(self, brightness, net))

\* LedCommands::Clear
handle_leds_clear(self, net) == ReportCall("clear_leds", clear_leds(self, net))

\* handle_status
handle_status(self, net) == ReportCall("get_effect_status", get_effect_status(self, net))

----------------------------------------------------------------------------
(* Inputs. *)

\* Longest value drawn for a key=value parameter, and longest parameter list.
MaxValLen == 4
MaxParams == 4

\* Characters values are drawn from: "x" stands for any character that is no
\* part of a number.
ValAlphabet == {"0", "1", "-", ".", "e", "=", "x"}

\* Values no short string over ValAlphabet reaches.
SpecialValues ==
    { <<"t","r","u","e">>, <<"T","R","U","E">>, <<"F","a","l","s","e">>,
      <<"f","a","l","s","e">>, <<"t","R","u","E">>, <<"t","r","u","e","e">>,
      <<"4","2">>, <<"+","4","2">>, <<"0","0","7">>, <<"3",".","1","4">>,
      <<"h","e","l","l","o">>, <<" ","4","2">>, <<"1","_","0","0","0">>,
      <<"i","n","f">>, <<"-","i","n","f">>, <<"+","I","n","f","i","n","i","t","y">>,
      <<"N","a","N">>, <<"n","a","n">>, <<"i","n","f","i","n","i","t">>,
      <<"1","e","4","0","0">>, <<"-","1","e","4","0","0">>, <<"1","e","3","0","8">>,
      <<"1",".","8","e","3","0","8">>, <<"1","e","-","4","0","0">>, <<"1","E","+","5">>,
      <<"1",".","7","9","7","6","9","3","1","3","4","8","6","2","3","1","5","7","e","3","0","8">>,
      <<"1",".","7","9","7","6","9","3","1","3","4","8","6","2","3","1","5","9","e","3","0","8">>,
      <<"9","2","2","3","3","7","2","0","3","6","8","5","4","7","7","5","8","0","7">>,
      <<"9","2","2","3","3","7","2","0","3","6","8","5","4","7","7","5","8","0","8">>,
      <<"-","9","2","2","3","3","7","2","0","3","6","8","5","4","7","7","5","8","0","8">>,
      <<"-","9","2","2","3","3","7","2","0","3","6","8","5","4","7","7","5","8","0","9">> }

ValuePool == StringsUpTo(ValAlphabet, MaxValLen) \cup SpecialValues

\* Whole parameters for the lists of several.
EntryPool ==
    { <<"a","=","1">>, <<"b","=","t","r","u","e">>, <<"a","=","2">>,
      <<"c","=","x","=","y">>, <<"n","o","v","a","l","u","e">>, <<"=","5">>,
      <<"a","=">>, <<"s","p","e","e","d","=","5">>,
      <<"s","m","o","o","t","h","=","t","r","u","e">> }

ParamInputs ==
    {<<(<<"k", "=">> \o v)>> : v \in ValuePool}
    \cup StringsUpTo(EntryPool, MaxParams)

\* Inputs of the client operations and commands.
EffectNames == {<<"r","a","i","n","b","o","w">>, <<"x">>}
Colors == {<<"r","e","d">>}
ParamLists ==
    { <<>>,
      <<(<<"s","p","e","e","d","=","5">>), (<<"s","m","o","o","t","h","=","t","r","u","e">>)>>,
      <<(<<"n","o","v","a","l","u","e">>)>> }

\* --url and LIGHTWAVE_URL for the runs that exercise the operations.
FewUrlArgs == {None, Some(<<"h">>)}
FewEnvVars == {EnvNotPresent}

UrlStrings == StringsUpTo(UrlAlphabet, MaxUrlLen)

NoCall == [op |-> "none"]
NoCmd == [command |-> "none"]

----------------------------------------------------------------------------
(* Client construction from every short URL: handle_command lines 84-87. *)

InitUrl ==
    /\ \/ /\ url_arg \in {None} \cup {Some(u) : u \in UrlStrings}
          /\ env_var \in {EnvNotPresent, EnvNotUnicode} \cup {EnvOk(u) : u \in {<<"h", "/">>}}
       \/ /\ url_arg \in {None, Some(<<"h", "/", "a", "p", "i">>)}
          /\ env_var \in {EnvOk(u) : u \in UrlStrings}
    /\ client = None
    /\ params = <<>>
    /\ parsed = None
    /\ call = NoCall
    /\ prev_call = NoCall
    /\ cmd = NoCmd

\* Some(url) => LightWaveClient::with_base_url(url)?
WithBaseUrl ==
    /\ client = None
    /\ url_arg.some
    /\ client' = Some(with_base_url(url_arg.val, env_var))
    /\ UNCHANGED <<url_arg, env_var, params, parsed, call, prev_call, cmd>>

\* None => LightWaveClient::new()?
New ==
    /\ client = None
    /\ ~url_arg.some
    /\ client' = Some(new(env_var))
    /\ UNCHANGED <<url_arg, env_var, params, parsed, call, prev_call, cmd>>

NextUrl == WithBaseUrl \/ New

SpecUrl == InitUrl /\ [][NextUrl]_vars

----------------------------------------------------------------------------
(* parse_params on every drawn parameter list. *)

InitParams ==
    /\ url_arg = None
    /\ env_var = EnvNotPresent
    /\ client = None
    /\ params \in ParamInputs
    /\ parsed = None
    /\ call = NoCall
    /\ prev_call = NoCall
    /\ cmd = NoCmd

ParseParams ==
    /\ parsed = None
    /\ parsed' = Some(parse_params(params))
    /\ UNCHANGED <<url_arg, env_var, client, params, call, prev_call, cmd>>

NextParams == ParseParams

SpecParams == InitParams /\ [][NextParams]_vars

----------------------------------------------------------------------------
(* One run of the program on a constructed client: one command of the     *)
(* dispatch layer, or one API method called on the client directly.       *)

Init ==
    /\ url_arg \in FewUrlArgs
    /\ env_var \in FewEnvVars
    /\ client = Some(IF url_arg.some
                     THEN with_base_url(url_arg.val, env_var) ELSE new(env_var))
    /\ params = <<>>
    /\ parsed = None
    /\ call = NoCall
    /\ prev_call = NoCall
    /\ cmd = NoCmd

Called(op, args, net, outcome) ==
    [op |-> op, args |-> args, net |-> net,
     sent |-> outcome.sent, result |-> outcome.result]

\* main handles one command and the process exits: nothing has run yet.
Idle == call.op = "none" /\ cmd.command = "none"

ClientFrame == UNCHANGED <<url_arg, env_var, client, params, parsed, prev_call, cmd>>

ListEffects ==
    /\ Idle
    /\ \E net \in NetOutcomes :
            /\ call' = Called("list_effects", <<>>, net, list_effects(client.val, net))
            /\ ClientFrame

GetEffectInfo ==
    /\ Idle
    /\ \E name \in EffectNames, net \in NetOutcomes :
            /\ call' = Called("get_effect_info", <<name>>, net,
                              get_effect_info(client.val, name, net))
            /\ ClientFrame

GetEffectStatus ==
    /\ Idle
    /\ \E net \in NetOutcomes :
            /\ call' = Called("get_effect_status", <<>>, net,
                              get_effect_status(client.val, net))
            /\ ClientFrame

StartEffect ==
    /\ Idle
    /\ \E name \in EffectNames, param \in ParamLists, net \in NetOutcomes :
            /\ call' = Called("start_effect", <<name, parse_params(param)>>, net,
                              start_effect(client.val, name, parse_params(param), net))
            /\ ClientFrame

StopEffect ==
    /\ Idle
    /\ \E net \in NetOutcomes :
            /\ call' = Called("stop_effect", <<>>, net, stop_effect(client.val, net))
            /\ ClientFrame

SetColor ==
    /\ Idle
    /\ \E color \in Colors, net \in NetOutcomes :
            /\ call' = Called("set_color", <<color>>, net, set_color(client.val, color, net))
            /\ ClientFrame

SetBrightness ==
    /\ Idle
    /\ \E brightness \in F32Values, net \in NetOutcomes :
            /\ call' = Called("set_brightness", <<brightness>>, net,
                              set_brightness(client.val, brightness, net))
            /\ ClientFrame

ClearLeds ==
    /\ Idle
    /\ \E net \in NetOutcomes :
            /\ call' = Called("clear_leds", <<>>, net, clear_leds(client.val, net))
            /\ ClientFrame

\* net is what the network did with the command's first request.
Ran(command, args, net, outcome) ==
    [command |-> command, args |-> args, net |-> net, calls |-> outcome.calls,
     stderr |-> outcome.stderr, result |-> outcome.result]

CommandFrame == UNCHANGED <<url_arg, env_var, client, params, parsed, call, prev_call>>

\* The answers to draw for a command's second request: all of them when the
\* first call ended in a 404, none to choose otherwise.
SecondNet(first, net) == IF IsNotFound(first.result) THEN NetOutcomes ELSE {net}

CmdEffectsList ==
    /\ Idle
    /\ \E net \in NetOutcomes :
            /\ cmd' = Ran("effects list", <<>>, net, handle_effects_list(client.val, net))
            /\ CommandFrame

CmdEffectsRunning ==
    /\ Idle
    /\ \E net \in NetOutcomes :
            /\ cmd' = Ran("effects running", <<>>, net, handle_effects_running(client.val, net))
            /\ CommandFrame

CmdEffectsInfo ==
    /\ Idle
    /\ \E name \in EffectNames, net \in NetOutcomes :
            \E net2 \in SecondNet(get_effect_info(client.val, name, net), net) :
                /\ cmd' = Ran("effects info", <<name>>, net,
                              handle_effects_info(client.val, name, net, net2))
                /\ CommandFrame

CmdEffectsStart ==
    /\ Idle
    /\ \E name \in EffectNames, param \in ParamLists, net \in NetOutcomes :
            \E net2 \in SecondNet(start_effect(client.val, name, parse_params(param), net), net) :
                /\ cmd' = Ran("effects start", <<name, param>>, net,
                              handle_effects_start(client.val, name, param, net, net2))
                /\ CommandFrame

CmdEffectsStop ==
    /\ Idle
    /\ \E net \in NetOutcomes :
            /\ cmd' = Ran("effects stop", <<>>, net, handle_effects_stop(client.val, net))
            /\ CommandFrame

CmdLedsColor ==
    /\ Idle
    /\ \E color \in Colors, net \in NetOutcomes :
            /\ cmd' = Ran("leds color", <<color>>, net, handle_leds_color(client.val, color, net))
            /\ CommandFrame

CmdLedsBrightness ==
    /\ Idle
    /\ \E brightness \in F32Values, net \in NetOutcomes :
            /\ cmd' = Ran("leds brightness", <<brightness>>, net,
                          handle_leds_brightness(client.val, brightness, net))
            /\ CommandFrame

CmdLedsClear ==
    /\ Idle
    /\ \E net \in NetOutcomes :
            /\ cmd' = Ran("leds clear", <<>>, net, handle_leds_clear(client.val, net))
            /\ CommandFrame

CmdStatus ==
    /\ Idle
    /\ \E net \in NetOutcomes :
            /\ cmd' = Ran("status", <<>>, net, handle_status(client.val, net))
            /\ CommandFrame

Next ==
    \/ ListEffects \/ GetEffectInfo \/ GetEffectStatus \/ StartEffect
    \/ StopEffect \/ SetColor \/ SetBrightness \/ ClearLeds
    \/ CmdEffectsList \/ CmdEffectsRunning \/ CmdEffectsInfo \/ CmdEffectsStart
    \/ CmdEffectsStop \/ CmdLedsColor \/ CmdLedsBrightness \/ CmdLedsClear
    \/ CmdStatus

Spec == Init /\ [][Next]_vars

----------------------------------------------------------------------------
(* Properties of the response handling. *)

\* The last client operation sent its request and the server answered it.
WasAnswered == call.op # "none" /\ Len(call.sent) > 0 /\ call.net.sent_ok

AnsweredFailure == WasAnswered /\ ~(call.net.resp.status \in 200..299)
AnsweredSuccess == WasAnswered /\ call.net.resp.status \in 200..299

\* The detail string of a body that is a JSON object {"detail": "<string>"},
\* possibly with further fields.
BodyDetail(body) ==
    IF body[1] = "object" /\ "detail" \in DOMAIN body[2] /\ body[2]["detail"][1] = "string"
    THEN Some(body[2]["detail"][2])
    ELSE None

\* The payload type each operation expects, and the fields a body must hold
\* to be of that type: src/models.rs lines 40-72.
PayloadType(op) ==
    CASE op = "list_effects" -> "EffectsListResponse"
      [] op = "get_effect_info" -> "EffectDetailedInfo"
      [] op = "get_effect_status" -> "EffectStatusResponse"

RequiredFields(op) ==
    CASE op = "list_effects" -> {"effects"}
      [] op = "get_effect_info" -> {"name", "description", "parameters"}
      [] op = "get_effect_status" -> {"running"}

TypedOps == {"list_effects", "get_effect_info", "get_effect_status"}

\* C1, as claimed: on a non-success status every operation returns an API
\* response error with that status, whose message is the body's detail string
\* when the body is {detail: string} and otherwise "Error status: <code>",
\* <code> being the numeric status code alone.
C1_NumericCodeOnly ==
    AnsweredFailure =>
        call.result =
            Err(ApiResponseError(
                IF BodyDetail(call.net.resp.body).some
                THEN BodyDetail(call.net.resp.body).val
                ELSE "Error status: " \o ToString(call.net.resp.status),
                call.net.resp.status))

\* C1, amended: on a non-success status every operation returns an API
\* response error with that status, whose message is the body's detail string
\* when the body is {detail: string} and otherwise "Error status: " followed
\* by the status as StatusCode displays it: the numeric code, a space and the
\* canonical reason phrase ("Error status: 404 Not Found").
C1_ErrorClassification ==
    AnsweredFailure =>
        call.result =
            Err(ApiResponseError(
                IF BodyDetail(call.net.resp.body).some
                THEN BodyDetail(call.net.resp.body).val
                ELSE "Error status: " \o ToString(call.net.resp.status) \o " "
                        \o canonical_reason(call.net.resp.status),
                call.net.resp.status))

\* A 500 without a JSON body gave the fallback message.
C1_Witness ==
    /\ AnsweredFailure
    /\ call.op = "stop_effect"
    /\ call.net.resp = [status |-> 500, body |-> NotJson]
    /\ call.result =
         Err(<<"ApiResponseError", "Error status: 500 Internal Server Error", 500>>)

\* C2: on a non-success status no operation returns a success value or a
\* deserialization error, whatever the body holds: the status is looked at
\* before the body is taken for the payload.
C2_StatusBeforeBody ==
    AnsweredFailure =>
        /\ ~call.result.ok
        /\ call.result.err[1] = "ApiResponseError"
        /\ call.result.err[3] = call.net.resp.status

\* A 404 whose body is a well-formed effects list was still an error.
C2_Witness ==
    /\ AnsweredFailure
    /\ call.op = "list_effects"
    /\ call.net.resp.status = 404
    /\ call.net.resp.body = JObject([k \in {"effects"} |-> JArray(<<EffectInfoJson>>)])
    /\ ~call.result.ok

\* C3: on a success status an operation with a payload returns the decoded
\* payload when the body decodes to it, and otherwise a deserialization error
\* that carries the parse failure message; a body that lacks a field of the
\* payload never gives a success value.
C3_DecodeOrDeserializationError ==
    (AnsweredSuccess /\ call.op \in TypedOps) =>
        LET decoded == ResponseJson(PayloadType(call.op), call.net.resp.body)
            body == call.net.resp.body
        IN  /\ decoded.ok => call.result = Ok(decoded.val)
            /\ ~decoded.ok =>
                 call.result =
                    Err(<<"DeserializationError",
                          "Failed to parse response: " \o decoded.err>>)
            /\ call.result.ok =>
                 /\ body[1] = "object"
                 /\ RequiredFields(call.op) \subseteq DOMAIN body[2]

\* A 200 whose body lacks the effects field gave a deserialization error.
C3_Witness ==
    /\ AnsweredSuccess
    /\ call.op = "list_effects"
    /\ call.net.resp = [status |-> 200, body |-> JObject([k \in {"detail"} |-> JString("Effect not found")])]
    /\ ~call.result.ok
    /\ call.result.err[1] = "DeserializationError"

----------------------------------------------------------------------------
(* Properties of set_brightness and of the requests sent. *)

\* x is a number with 0.0 <= x <= 1.0; NaN and the infinities are not.
InUnitInterval(x) ==
    /\ x.class = "finite"
    /\ (x.neg => x.tenths = 0)
    /\ x.tenths <= 10

\* C4: set_brightness with a value outside [0.0, 1.0] returns the client
\* precondition error and sends nothing; with a value within it sends the
\* POST to /leds/brightness and does not return the precondition error.
C4_BrightnessPrecondition ==
    call.op = "set_brightness" =>
        IF InUnitInterval(call.args[1])
        THEN /\ Len(call.sent) = 1
             /\ call.sent[1].method = "POST"
             /\ call.sent[1].url = client.val.base_url \o PathLedsBrightness
             /\ ~(~call.result.ok /\ call.result.err[1] = "ClientError")
        ELSE /\ call.sent = <<>>
             /\ ~call.result.ok
             /\ call.result.err[1] = "ClientError"

\* set_brightness was called with NaN, sent its request with the brightness
\* written as null, and returned what the server answered.
C4_NaNWasSent ==
    /\ call.op = "set_brightness"
    /\ call.args[1] = F32NaN
    /\ Len(call.sent) = 1
    /\ call.sent[1].url = client.val.base_url \o PathLedsBrightness
    /\ call.sent[1].json = Some([brightness |-> JNull])
    /\ call.result = Ok(Unit)

\* C5: every client operation sends at most one request; a request that
\* fails in transport gives a request error after that one request, and a
\* non-success answer is returned after exactly one request. The calls a
\* command makes obey the same.
C5_AtMostOneRequest ==
    /\ call.op # "none" =>
        /\ Len(call.sent) <= 1
        /\ (Len(call.sent) > 0 /\ ~call.net.sent_ok) =>
              call.result = Err(<<"RequestError", call.net.err>>)
        /\ AnsweredFailure => Len(call.sent) = 1
    /\ cmd.command # "none" =>
        \A i \in DOMAIN cmd.calls : Len(cmd.calls[i].sent) <= 1

\* list_effects met a transport failure and reported it after one request.
C5_Witness ==
    /\ call.op = "list_effects"
    /\ ~call.net.sent_ok
    /\ Len(call.sent) = 1
    /\ ~call.result.ok
    /\ call.result.err[1] = "RequestError"

----------------------------------------------------------------------------
(* Properties of the base URL. *)

EndsWithApi(t) ==
    /\ Len(t) >= 4
    /\ t[Len(t) - 3] = "/"
    /\ t[Len(t) - 2] = "a"
    /\ t[Len(t) - 1] = "p"
    /\ t[Len(t)] = "i"

\* r is input with its trailing slashes removed, followed by "/api" unless
\* that already ends with "/api".
NormalizedFrom(input, r) ==
    \E k \in 0..Len(input) :
        /\ \A i \in (k + 1)..Len(input) : input[i] = "/"
        /\ k = 0 \/ input[k] # "/"
        /\ r = IF EndsWithApi(SubSeq(input, 1, k))
               THEN SubSeq(input, 1, k)
               ELSE SubSeq(input, 1, k) \o <<"/", "a", "p", "i">>

Localhost ==
    <<"h","t","t","p",":","/","/","l","o","c","a","l","h","o","s","t",
      ":","8","0","0","0","/","a","p","i">>

EnvIsSet == env_var # EnvNotPresent

----------------------------------------------------------------------------
(* Properties of parse_params. *)

KeyK == <<"k">>

\* The list holds the one parameter k=<value>.
SingleK == Len(params) = 1 /\ Len(params[1]) >= 2 /\ SubSeq(params[1], 1, 2) = <<"k", "=">>
ValueK == SubSeq(params[1], 3, Len(params[1]))

IsWord(v, lower, upper) ==
    /\ Len(v) = Len(lower)
    /\ \A i \in 1..Len(v) : v[i] = lower[i] \/ v[i] = upper[i]

IsTrueWord(v) == IsWord(v, <<"t","r","u","e">>, <<"T","R","U","E">>)
IsFalseWord(v) == IsWord(v, <<"f","a","l","s","e">>, <<"F","A","L","S","E">>)

\* The value the four rules give, tried in their order.
ByRules(v) ==
    IF IsTrueWord(v) THEN <<"Bool", TRUE>>
    ELSE IF IsFalseWord(v) THEN <<"Bool", FALSE>>
    ELSE IF parse_i64(v).ok THEN <<"Number", "i64", parse_i64(v).val>>
    ELSE IF parse_f64(v).ok /\ parse_f64(v).val.class = "finite"
    THEN <<"Number", "f64", parse_f64(v).val>>
    ELSE <<"String", v>>

\* C8: a value is a boolean if it is "true" or "false" in any letter case,
\* else an integer if it parses as i64, else a float if it parses as a finite
\* f64, else the raw string; so "true", "TRUE", "False" are booleans, "42" an
\* integer, "3.14" a float, "hello" and "inf" strings.
C8_CoercionOrder ==
    (parsed.some /\ SingleK) =>
        /\ DOMAIN parsed.val = {KeyK}
        /\ parsed.val[KeyK] = ByRules(ValueK)
        /\ ValueK \in {<<"t","r","u","e">>, <<"T","R","U","E">>}
              => parsed.val[KeyK] = <<"Bool", TRUE>>
        /\ ValueK = <<"F","a","l","s","e">> => parsed.val[KeyK] = <<"Bool", FALSE>>
        /\ ValueK = <<"4","2">>
              => parsed.val[KeyK] =
                    <<"Number", "i64", [neg |-> FALSE, digits |-> <<"4","2">>]>>
        /\ ValueK = <<"3",".","1","4">>
              => /\ parsed.val[KeyK][1] = "Number"
                 /\ parsed.val[KeyK][2] = "f64"
                 /\ parsed.val[KeyK][3].sig = <<"3","1","4">>
                 /\ parsed.val[KeyK][3].exp = 0
        /\ ValueK \in {<<"h","e","l","l","o">>, <<"i","n","f">>, <<"N","a","N">>,
                       <<"1","e","4","0","0">>}
              => parsed.val[KeyK] = <<"String", ValueK>>

\* "1e400" parses as a float, an infinite one, and was kept as a string.
C8_Witness ==
    /\ parsed.some
    /\ SingleK
    /\ ValueK = <<"1","e","4","0","0">>
    /\ parse_f64(ValueK).ok
    /\ parsed.val[KeyK] = <<"String", ValueK>>

HasEq(e) == \E i \in 1..Len(e) : e[i] = "="
FirstEq(e) == CHOOSE i \in 1..Len(e) : e[i] = "=" /\ \A j \in 1..(i - 1) : e[j] # "="
KeyOf(e) == SubSeq(e, 1, FirstEq(e) - 1)
ValueOf(e) == SubSeq(e, FirstEq(e) + 1, Len(e))

\* The last parameter of the list with key k.
LastWithKey(k) ==
    CHOOSE i \in 1..Len(params) :
        /\ HasEq(params[i]) /\ KeyOf(params[i]) = k
        /\ \A j \in (i + 1)..Len(params) : ~(HasEq(params[j]) /\ KeyOf(params[j]) = k)

ExampleParams ==
    << <<"a","=","1">>, <<"b","=","t","r","u","e">>, <<"a","=","2">>,
       <<"c","=","x","=","y">> >>

\* C9: the keys of the map are the prefixes before the first '=' of the
\* parameters that hold one; a parameter without '=' is dropped; the value is
\* all that follows the first '='; a key given several times maps to the
\* coercion of its last value. ["a=1","b=true","a=2","c=x=y"] gives
\* {a: 2, b: true, c: "x=y"}.
C9_KeysAndLastWins ==
    parsed.some =>
        /\ DOMAIN parsed.val =
              {KeyOf(params[i]) : i \in {j \in 1..Len(params) : HasEq(params[j])}}
        /\ \A k \in DOMAIN parsed.val :
              parsed.val[k] = ByRules(ValueOf(params[LastWithKey(k)]))
        /\ params = ExampleParams =>
              /\ DOMAIN parsed.val = {<<"a">>, <<"b">>, <<"c">>}
              /\ parsed.val[<<"a">>] =
                    <<"Number", "i64", [neg |-> FALSE, digits |-> <<"2">>]>>
              /\ parsed.val[<<"b">>] = <<"Bool", TRUE>>
              /\ parsed.val[<<"c">>] = <<"String", <<"x","=","y">>>>

\* The example list was parsed.
C9_Witness ==
    /\ parsed.some
    /\ params = ExampleParams
    /\ DOMAIN parsed.val = {<<"a">>, <<"b">>, <<"c">>}

----------------------------------------------------------------------------
(* Properties of the dispatch layer. *)

\* C10: the stop command returns success when its stop_effect call failed
\* with an API response error of status 404, and returns the call's error when
\* the call failed in any other way.
C10_StopNotFoundIsSuccess ==
    cmd.command = "effects stop" =>
        LET r == cmd.calls[1].result
        IN  /\ Len(cmd.calls) = 1
            /\ cmd.calls[1].op = "stop_effect"
            /\ r.ok => cmd.result = Ok(Unit)
            /\ (~r.ok /\ r.err[1] = "ApiResponseError" /\ r.err[3] = 404)
                  => cmd.result = Ok(Unit)
            /\ (~r.ok /\ ~(r.err[1] = "ApiResponseError" /\ r.err[3] = 404))
                  => cmd.result = Err(r.err)

\* The stop call came back with a 404 and the command succeeded.
C10_Witness ==
    /\ cmd.command = "effects stop"
    /\ ~cmd.calls[1].result.ok
    /\ cmd.calls[1].result.err[1] = "ApiResponseError"
    /\ cmd.calls[1].result.err[3] = 404
    /\ cmd.result.ok

----------------------------------------------------------------------------
(* Properties of the supplementary list-effects call. *)

\* The client call a command makes first.
PrimaryOp ==
    [c \in {"effects list", "effects running", "effects info", "effects start",
            "effects stop", "leds color", "leds brightness", "leds clear", "status"} |->
        CASE c = "effects list" -> "list_effects"
          [] c = "effects running" -> "get_effect_status"
          [] c = "effects info" -> "get_effect_info"
          [] c = "effects start" -> "start_effect"
          [] c = "effects stop" -> "stop_effect"
          [] c = "leds color" -> "set_color"
          [] c = "leds brightness" -> "set_brightness"
          [] c = "leds clear" -> "clear_leds"
          [] c = "status" -> "get_effect_status"]

\* The result is an API response error of status 404.
Failed404(result) ==
    ~result.ok /\ result.err[1] = "ApiResponseError" /\ result.err[3] = 404

\* All the requests the calls of the command sent.
RequestsSent == IF Len(cmd.calls) = 1 THEN Len(cmd.calls[1].sent)
                ELSE Len(cmd.calls[1].sent) + Len(cmd.calls[2].sent)

\* C11: a command makes a second call, list_effects, exactly when it is
\* effect info or effect start and its first call failed with an API response
\* error of status 404; the list call comes after the failed call, and
\* whatever it returns the command returns the 404 error. Every other failure
\* of a command, but a 404 of stop, sends no second request and is returned
\* as the command's error.
C11_SupplementaryListOnly404 ==
    cmd.command # "none" =>
        LET first == cmd.calls[1]
            supplementary ==
                /\ cmd.command \in {"effects info", "effects start"}
                /\ Failed404(first.result)
        IN  /\ first.op = PrimaryOp[cmd.command]
            /\ Len(cmd.calls) = (IF supplementary THEN 2 ELSE 1)
            /\ supplementary =>
                  /\ cmd.calls[2].op = "list_effects"
                  /\ Len(first.sent) = 1
                  /\ cmd.result = Err(first.result.err)
            /\ ~supplementary => RequestsSent <= 1
            /\ (~first.result.ok
                  /\ ~(cmd.command = "effects stop" /\ Failed404(first.result)))
                  => cmd.result = Err(first.result.err)

\* effect info met a 404, the list call that followed failed in transport,
\* and the command returned the 404 error.
C11_Witness ==
    /\ cmd.command = "effects info"
    /\ Len(cmd.calls) = 2
    /\ Failed404(cmd.calls[1].result)
    /\ cmd.calls[2].op = "list_effects"
    /\ ~cmd.calls[2].result.ok
    /\ cmd.calls[2].result.err[1] = "RequestError"
    /\ cmd.result = Err(cmd.calls[1].result.err)

----------------------------------------------------------------------------
(* Starting an effect, end to end. *)

Rainbow == <<"r","a","i","n","b","o","w">>
SpeedKey == <<"s","p","e","e","d">>
SmoothKey == <<"s","m","o","o","t","h">>
RainbowParams == << SpeedKey \o <<"=","5">>, SmoothKey \o <<"=","t","r","u","e">> >>

\* {"speed": 5, "smooth": true}
RainbowMap ==
    [k \in {SpeedKey, SmoothKey} |->
        IF k = SpeedKey
        THEN <<"Number", "i64", [neg |-> FALSE, digits |-> <<"5">>]>>
        ELSE <<"Bool", TRUE>>]

StartUrl == client.val.base_url \o <<"/","e","f","f","e","c","t","s","/","s","t","a","r","t">>

\* C12: the start command sends one POST to <base URL>/effects/start whose
\* body holds the name as given and the parse_params mapping of the
\* parameters; for "rainbow" with ["speed=5", "smooth=true"] the body is
\* {"name": "rainbow", "parameters": {"speed": 5, "smooth": true}}, an answer
\* of 200 gives success, and an answer of 404 gives an API response error of
\* status 404, which the command treats as "not found": it reports the name,
\* lists the effects and returns that error.
C12_StartEndToEnd ==
    cmd.command = "effects start" =>
        LET first == cmd.calls[1]
        IN  /\ first.op = "start_effect"
            /\ Len(first.sent) = 1
            /\ first.sent[1].method = "POST"
            /\ first.sent[1].url = StartUrl
            /\ first.sent[1].json.some
            /\ first.sent[1].json.val.name = cmd.args[1]
            /\ first.sent[1].json.val.parameters = parse_params(cmd.args[2])
            /\ cmd.args = <<Rainbow, RainbowParams>> =>
                  /\ first.sent[1].json.val = [name |-> Rainbow, parameters |-> RainbowMap]
                  /\ (cmd.net.sent_ok /\ cmd.net.resp.status = 200) =>
                        /\ first.result = Ok(Unit)
                        /\ Len(cmd.calls) = 1
                        /\ cmd.result = Ok(Unit)
                  /\ (cmd.net.sent_ok /\ cmd.net.resp.status = 404) =>
                        /\ ~first.result.ok
                        /\ first.result.err[1] = "ApiResponseError"
                        /\ first.result.err[3] = 404
                        /\ cmd.stderr = << <<"not found", Rainbow>> >>
                        /\ Len(cmd.calls) = 2
                        /\ cmd.calls[2].op = "list_effects"
                        /\ cmd.result = Err(first.result.err)

\* "rainbow" was started with the two parameters, the server answered 404 and
\* the command took the "not found" path.
C12_Witness ==
    /\ cmd.command = "effects start"
    /\ cmd.args = <<Rainbow, RainbowParams>>
    /\ cmd.net.sent_ok
    /\ cmd.net.resp.status = 404
    /\ cmd.calls[1].sent[1].json.val.parameters = RainbowMap
    /\ cmd.stderr = << <<"not found", Rainbow>> >>
    /\ ~cmd.result.ok

----------------------------------------------------------------------------
(* One client reused for a sequence of operations: the methods of          *)
(* src/api.rs lines 131-238 take &self, and the struct of lines 46-49 has  *)
(* no field they could assign.                                             *)

\* A failed call leaves the client pointing at the default server.
AfterCall_reset_on_error(self, outcome) ==
    IF outcome.result.ok THEN self ELSE [base_url |-> DefaultUrl]

\* The client after a method has run on &self.
AfterCall(self, outcome) == self

\* The answers drawn for the operations of a sequence.
SeqNets ==
    {SendFailed(e) : e \in TransportErrors}
    \cup {Answered(200, b) : b \in {NotJson, JObject([k \in {"effects"} |-> GoodValue(k)])}}
    \cup {Answered(NOT_FOUND, b) :
              b \in {NotJson, JObject([k \in {"detail"} |-> GoodValue(k)])}}

SeqNames == {<<"r","a","i","n","b","o","w">>}
SeqParamLists == {<<>>, <<(<<"s","p","e","e","d","=","5">>)>>}

\* 0.5, 1.2 and NaN.
SeqBrightness == {F32Finite(FALSE, 5), F32Finite(FALSE, 12), F32NaN}

SeqCall(op, args, net, outcome) ==
    /\ prev_call' = call
    /\ call' = Called(op, args, net, outcome)
    /\ client' = Some(AfterCall(client.val, outcome))
    /\ UNCHANGED <<url_arg, env_var, params, parsed, cmd>>

SeqListEffects ==
    /\ client.some
    /\ \E net \in SeqNets :
            SeqCall("list_effects", <<>>, net, list_effects(client.val, net))

SeqGetEffectInfo ==
    /\ client.some
    /\ \E name \in SeqNames, net \in SeqNets :
            SeqCall("get_effect_info", <<name>>, net, get_effect_info(client.val, name, net))

SeqGetEffectStatus ==
    /\ client.some
    /\ \E net \in SeqNets :
            SeqCall("get_effect_status", <<>>, net, get_effect_status(client.val, net))

SeqStartEffect ==
    /\ client.some
    /\ \E name \in SeqNames, param \in SeqParamLists, net \in SeqNets :
            SeqCall("start_effect", <<name, parse_params(param)>>, net,
                    start_effect(client.val, name, parse_params(param), net))

SeqStopEffect ==
    /\ client.some
    /\ \E net \in SeqNets :
            SeqCall("stop_effect", <<>>, net, stop_effect(client.val, net))

SeqSetColor ==
    /\ client.some
    /\ \E color \in Colors, net \in SeqNets :
            SeqCall("set_color", <<color>>, net, set_color(client.val, color, net))

SeqSetBrightness ==
    /\ client.some
    /\ \E brightness \in SeqBrightness, net \in SeqNets :
            SeqCall("set_brightness", <<brightness>>, net,
                    set_brightness(client.val, brightness, net))

SeqClearLeds ==
    /\ client.some
    /\ \E net \in SeqNets :
            SeqCall("clear_leds", <<>>, net, clear_leds(client.val, net))

NextSeq ==
    \/ SeqListEffects \/ SeqGetEffectInfo \/ SeqGetEffectStatus \/ SeqStartEffect
    \/ SeqStopEffect \/ SeqSetColor \/ SeqSetBrightness \/ SeqClearLeds

SpecSeq == Init /\ [][NextSeq]_vars

----------------------------------------------------------------------------
(* Properties of the client across a sequence of operations. *)

\* The client as handle_command constructed it from --url and LIGHTWAVE_URL.
Constructed ==
    IF url_arg.some THEN with_base_url(url_arg.val, env_var) ELSE new(env_var)

\* What an operation sends and returns on the given client.
OutcomeOn(self, op, args, net) ==
    CASE op = "list_effects" -> list_effects(self, net)
      [] op = "get_effect_info" -> get_effect_info(self, args[1], net)
      [] op = "get_effect_status" -> get_effect_status(self, net)
      [] op = "start_effect" -> start_effect(self, args[1], args[2], net)
      [] op = "stop_effect" -> stop_effect(self, net)
      [] op = "set_color" -> set_color(self, args[1], net)
      [] op = "set_brightness" -> set_brightness(self, args[1], net)
      [] op = "clear_leds" -> clear_leds(self, net)

\* The recorded call sent and returned what its operation sends and returns
\* on the client as constructed, given its arguments and the server's answer.
AsOnConstructed(c) ==
    c.op # "none" =>
        Outcome(c.sent, c.result) = OutcomeOn(Constructed, c.op, c.args, c.net)

=============================================================================
